---- MODULE Spec2Model ----
(***************************************************************************)
(* Black Synapse ingestion worker: the ingestion pipeline of               *)
(* worker/app/pipeline.py with the helpers of worker/app/utils.py and the  *)
(* endpoints of worker/app/main.py that call it.                           *)
(*                                                                         *)
(* Scheduling.  The worker is one asyncio event loop.  A coroutine gives   *)
(* up the loop only where it really suspends; the psycopg2 and Qdrant      *)
(* calls are blocking calls, and awaiting a coroutine that never suspends  *)
(* does not yield.  The one suspension point of process_document is        *)
(* asyncio.to_thread inside get_embedding (utils.py:115).  An action of    *)
(* this model is therefore the code that runs between two suspensions.     *)
(***************************************************************************)
EXTENDS Integers, Sequences, FiniteSets, TLC

(***************************************************************************)
(* Bounds of the model.                                                    *)
(***************************************************************************)
NumCalls == 2

LongLen == 501

\* chunk_text on its own: the longest text, the largest max_tokens and the
\* largest overlap_tokens it is called with
MaxTextLen == 5

MaxMaxTokens == 3

MaxOverlap == 3

\* get_embedding on its own: the largest number of texts of one request
MaxBatch == 3

\* the largest chunk_index of the point ids that are compared
MaxIndex == 11

(***************************************************************************)
(* Python string helpers.  A text is a sequence of one-character strings;  *)
(* positions are 0-based as in Python, -1 is "not found".                  *)
(***************************************************************************)
IsSpace(ch) == ch \in {" ", "\n", "\t"}

Min(a, b) == IF a < b THEN a ELSE b

Max(a, b) == IF a > b THEN a ELSE b

\* s[a:b] with Python's treatment of negative and out-of-range indices
PySlice(s, a, b) ==
    LET n  == Len(s)
        lo == IF a < 0 THEN Max(n + a, 0) ELSE Min(a, n)
        hi == IF b < 0 THEN Max(n + b, 0) ELSE Min(b, n)
    IN  IF lo >= hi THEN << >> ELSE SubSeq(s, lo + 1, hi)

\* s.find(' ')
PyFind(s) ==
    IF \E i \in 1..Len(s) : s[i] = " "
    THEN (CHOOSE i \in 1..Len(s) : s[i] = " " /\ \A j \in 1..(i-1) : s[j] # " ") - 1
    ELSE -1

\* s.rfind(' ')
PyRFind(s) ==
    IF \E i \in 1..Len(s) : s[i] = " "
    THEN (CHOOSE i \in 1..Len(s) : s[i] = " " /\ \A j \in (i+1)..Len(s) : s[j] # " ") - 1
    ELSE -1

\* s.strip()
PyStrip(s) ==
    IF \A i \in 1..Len(s) : IsSpace(s[i])
    THEN << >>
    ELSE LET f == CHOOSE i \in 1..Len(s) : ~IsSpace(s[i]) /\ \A j \in 1..(i-1) : IsSpace(s[j])
             l == CHOOSE i \in 1..Len(s) : ~IsSpace(s[i]) /\ \A j \in (i+1)..Len(s) : IsSpace(s[j])
         IN  SubSeq(s, f, l)

(***************************************************************************)
(* The tokenizer.  tiktoken splits a text into tokens that are substrings  *)
(* of it and decode concatenates them again; the model takes the finest    *)
(* such split, one token per character.                                    *)
(***************************************************************************)
encode(text) == [i \in 1..Len(text) |-> << text[i] >>]

\* every token holds exactly one character, so the concatenation of the
\* tokens is the sequence of their characters
decode(toks) == [i \in 1..Len(toks) |-> toks[i][1]]

(***************************************************************************)
(* chunk_text (utils.py:30-95).                                            *)
(***************************************************************************)
max_tokens_default == 500

overlap_tokens_default == 50

\* one pass through the body of the while loop, from window start `start`
ChunkWindow(tokens, start, max_tokens, overlap_tokens) ==
    LET end   == Min(start + max_tokens, Len(tokens))
        raw   == decode(PySlice(tokens, start, end))
        fs    == PyFind(raw)
        t1    == IF start > 0 /\ fs > 0 THEN PySlice(raw, fs + 1, Len(raw)) ELSE raw
        ls    == PyRFind(t1)
        t2    == IF end < Len(tokens) /\ ls > 0 THEN PySlice(t1, 0, ls) ELSE t1
        next  == end - overlap_tokens
    IN  [emit  |-> PyStrip(t2) # << >>,
         chunk |-> [text |-> PyStrip(t2), token_count |-> Len(encode(t2))],
         next  |-> next,
         stop  |-> next >= Len(tokens) - overlap_tokens]

RECURSIVE ChunkLoop(_, _, _, _, _)
ChunkLoop(tokens, start, chunks, max_tokens, overlap_tokens) ==
    IF ~(start < Len(tokens))
    THEN chunks
    ELSE LET w  == ChunkWindow(tokens, start, max_tokens, overlap_tokens)
             cs == IF w.emit THEN Append(chunks, w.chunk) ELSE chunks
         IN  IF w.stop THEN cs
             ELSE ChunkLoop(tokens, w.next, cs, max_tokens, overlap_tokens)

\* variant: without the test for a blank text
chunk_text_unchecked(text, max_tokens, overlap_tokens) ==
    LET tokens == encode(text)
    IN  IF Len(tokens) <= max_tokens
        THEN << [text |-> text, token_count |-> Len(tokens)] >>
        ELSE ChunkLoop(tokens, 0, << >>, max_tokens, overlap_tokens)

\* variant: the single passage of a short text holds the stripped text
chunk_text_stripped(text, max_tokens, overlap_tokens) ==
    IF PyStrip(text) = << >>
    THEN << >>
    ELSE LET tokens == encode(text)
         IN  IF Len(tokens) <= max_tokens
             THEN << [text |-> PyStrip(text), token_count |-> Len(tokens)] >>
             ELSE ChunkLoop(tokens, 0, << >>, max_tokens, overlap_tokens)

chunk_text(text, max_tokens, overlap_tokens) ==
    IF PyStrip(text) = << >>
    THEN << >>
    ELSE LET tokens == encode(text)
         IN  IF Len(tokens) <= max_tokens
             THEN << [text |-> text, token_count |-> Len(tokens)] >>
             ELSE ChunkLoop(tokens, 0, << >>, max_tokens, overlap_tokens)

(***************************************************************************)
(* Documents.  A document handed to process_document is either a           *)
(* DocumentPayload object (main.py:46-55, attribute access works) or the   *)
(* dict that get_document_by_id returns and reindex_document passes on     *)
(* (main.py:153-158; a dict has no attributes and holds no text).          *)
(* The fields source, title, uri, author, created_at, updated_at are       *)
(* copied unread into rows and payloads and are left out.                  *)
(***************************************************************************)
Docs == {"doc", "doc_1"}

TextBlank == << " " >>

TextShort == << "h", "i" >>

TextLong == [i \in 1..LongLen |-> IF i % 5 = 0 THEN " " ELSE "w"]

AllTexts == << TextBlank, TextShort, TextLong >>

Texts == {AllTexts[i] : i \in 1..Len(AllTexts)}

NoText == << "<no text>" >>

DocumentPayload(doc_id, text) == [shape |-> "payload", doc_id |-> doc_id, text |-> text]

None == [shape |-> "None", doc_id |-> "", text |-> NoText]

HasAttributes(document) == document.shape = "payload"

\* SHA-256 hex digest of the text: an injection of the texts into digests
_compute_content_hash(text) ==
    [sha256 |-> CHOOSE i \in 1..Len(AllTexts) : AllTexts[i] = text]

\* chunk_text(document.text, self.tokenizer): the defaults of utils.py:31
ChunksOf == [t \in Texts |-> chunk_text(t, max_tokens_default, overlap_tokens_default)]

(***************************************************************************)
(* Results of calls that can raise: ok, the value, the exception.          *)
(***************************************************************************)
Ok(v) == [raised |-> FALSE, exc |-> "", value |-> v]

Raise(e) == [raised |-> TRUE, exc |-> e, value |-> << >>]

(***************************************************************************)
(* Metadata store (Postgres).  documents is the set of rows of the table   *)
(* documents, ingestion_log the rows of ingestion_log in insertion order.  *)
(* `fault` says that this statement fails (store unreachable, table not    *)
(* yet created, statement rejected).                                       *)
(***************************************************************************)
\* variant: the SELECT looks only at rows marked deleted
_is_document_unchanged_deleted(rows, doc_id, content_hash, fault) ==
    IF fault
    THEN FALSE
    ELSE \E r \in rows : r.doc_id = doc_id /\ r.content_hash = content_hash /\ r.is_deleted

\* variant: an except clause that returns True
_is_document_unchanged_or_failed(rows, doc_id, content_hash, fault) ==
    IF fault
    THEN TRUE
    ELSE \E r \in rows : r.doc_id = doc_id /\ r.content_hash = content_hash

_is_document_unchanged(rows, doc_id, content_hash, fault) ==
    IF fault
    THEN FALSE
    ELSE \E r \in rows : r.doc_id = doc_id /\ r.content_hash = content_hash

\* what the SELECT of _is_document_unchanged finds
LookupAnswer(rows, doc_id, content_hash, fault) ==
    IF fault THEN "failed"
    ELSE IF \A r \in rows : r.doc_id # doc_id THEN "absent"
    ELSE IF \E r \in rows : r.doc_id = doc_id /\ r.content_hash = content_hash THEN "same"
    ELSE "different"

\* variant: keeps one row per log, rewritten by every event
_log_ingestion_event_rewrite(log, doc_id, event_type, fault) ==
    IF fault
    THEN log
    ELSE IF log = << >>
    THEN << [doc_id |-> doc_id, event_type |-> event_type] >>
    ELSE [log EXCEPT ![Len(log)] = [doc_id |-> doc_id, event_type |-> event_type]]

\* the columns message and metadata of an entry are written and never read
_log_ingestion_event(log, doc_id, event_type, fault) ==
    IF fault
    THEN log
    ELSE Append(log, [doc_id |-> doc_id, event_type |-> event_type])

\* variant: INSERT ... ON CONFLICT (doc_id) DO NOTHING
_update_document_metadata_do_nothing(rows, doc_id, content_hash, chunk_count, fault) ==
    LET new == [doc_id |-> doc_id, content_hash |-> content_hash,
                chunk_count |-> chunk_count, is_deleted |-> FALSE]
    IN  IF fault
        THEN Raise("OperationalError")
        ELSE IF \E r \in rows : r.doc_id = doc_id
        THEN Ok(rows)
        ELSE IF \E r \in rows : r.content_hash = content_hash
        THEN Raise("UniqueViolation")
        ELSE Ok(rows \cup {new})

\* INSERT ... ON CONFLICT (doc_id) DO UPDATE under the constraints
\* doc_id PRIMARY KEY and content_hash UNIQUE of the table
_update_document_metadata(rows, doc_id, content_hash, chunk_count, fault) ==
    LET new == [doc_id |-> doc_id, content_hash |-> content_hash,
                chunk_count |-> chunk_count, is_deleted |-> FALSE]
    IN  IF fault
        THEN Raise("OperationalError")
        ELSE IF \E r \in rows : r.doc_id # doc_id /\ r.content_hash = content_hash
        THEN Raise("UniqueViolation")
        ELSE IF \E r \in rows : r.doc_id = doc_id
        THEN Ok({IF r.doc_id = doc_id THEN new ELSE r : r \in rows})
        ELSE Ok(rows \cup {new})

\* variant: builds the dict from the doc_id when the SELECT finds no row
get_document_by_id_stub(rows, doc_id, fault) ==
    IF fault
    THEN None
    ELSE [shape |-> "dict", doc_id |-> doc_id, text |-> NoText]

\* the dict of the selected columns, or None (also when the query fails)
get_document_by_id(rows, doc_id, fault) ==
    IF fault
    THEN None
    ELSE IF \E r \in rows : r.doc_id = doc_id /\ ~r.is_deleted
    THEN [shape |-> "dict", doc_id |-> doc_id, text |-> NoText]
    ELSE None

(***************************************************************************)
(* Vector store (Qdrant): the set of Points of the collection.             *)
(***************************************************************************)
\* variant: f"{document.doc_id}{i}"
PointId_unseparated(doc_id, i) == doc_id \o ToString(i)

PointId(doc_id, i) == doc_id \o "_" \o ToString(i)

PointStruct(doc_id, i, chunk, embedding) ==
    [id |-> PointId(doc_id, i), vector |-> embedding,
     payload |-> [doc_id |-> doc_id, chunk_index |-> i, text |-> chunk.text]]

\* variant: enumerate(..., start=1)
BuildPoints_from_one(doc_id, chunks, embeddings) ==
    [k \in 1..Min(Len(chunks), Len(embeddings)) |->
        PointStruct(doc_id, k, chunks[k], embeddings[k])]

\* for i, (chunk, embedding) in enumerate(zip(chunks, embeddings))
BuildPoints(doc_id, chunks, embeddings) ==
    [k \in 1..Min(Len(chunks), Len(embeddings)) |->
        PointStruct(doc_id, k - 1, chunks[k], embeddings[k])]

\* variant: an insert that keeps the stored Points
qdrant_upsert_insert(stored, batch, fault) ==
    IF fault
    THEN Raise("UnexpectedResponse")
    ELSE Ok(stored \cup {batch[k] : k \in 1..Len(batch)})

\* upsert: a Point replaces the stored Point of the same id
qdrant_upsert(stored, batch, fault) ==
    IF fault
    THEN Raise("UnexpectedResponse")
    ELSE LET new == {batch[k] : k \in 1..Len(batch)}
         IN  Ok({p \in stored : \A q \in new : q.id # p.id} \cup new)

(***************************************************************************)
(* Embedding provider.  A response says whether the request raised and,    *)
(* if not, lists response.data, each entry given by the length of its      *)
(* vector; the provider answers in input order.                            *)
(***************************************************************************)
Dims == {1536, 3072}

Vector(dim, k) == [dim |-> dim, input |-> k]

RECURSIVE SeqsOfLen(_, _)
SeqsOfLen(S, n) ==
    IF n = 0 THEN {<< >>}
    ELSE {Append(q, x) : q \in SeqsOfLen(S, n - 1), x \in S}

\* the embedding models the pipeline knows and the length of their vectors
\* (pipeline.py:52-54, utils.py:132)
Models == {"text-embedding-3-small", "text-embedding-3-large"}

NativeDim(model) == IF model = "text-embedding-3-large" THEN 3072 ELSE 1536

\* the answers of model `native` to a request of n texts: the request
\* fails, or the provider returns n vectors of the dimension of the model,
\* or a malformed list (one vector short, one too many, or of unequal
\* lengths)
Responses(native, n) ==
    {[failed |-> TRUE, data |-> << >>]} \cup
    {[failed |-> FALSE, data |-> q] :
        q \in {r \in UNION {SeqsOfLen(Dims, m) : m \in (IF n > 0 THEN n - 1 ELSE 0)..(n + 1)} :
                  Len(r) = n => r[1] = native}}

\* the longest request the pipeline sends for the texts above
MaxChunks == CHOOSE n \in 0..LongLen : /\ \A t \in Texts : Len(ChunksOf[t]) <= n
                                       /\ \E t \in Texts : Len(ChunksOf[t]) = n

ResponsesFor == [native \in Dims |-> [n \in 0..MaxChunks |-> Responses(native, n)]]

AllResponses == UNION {ResponsesFor[native][n] : native \in Dims, n \in 1..MaxChunks}

\* variant: every request goes to the provider
NeedsProvider_always(texts) == TRUE

\* `if not texts: return []` (utils.py:110-111): only a request with texts
\* goes to the provider
NeedsProvider(texts) == texts # << >>

\* variant: checks the number of the vectors only
get_embedding_count_only(texts, response) ==
    IF texts = << >>
    THEN Ok(<< >>)
    ELSE IF response.failed
    THEN Raise("APIError")
    ELSE LET embeddings == [k \in 1..Len(response.data) |-> Vector(response.data[k], k)]
         IN  IF Len(embeddings) # Len(texts)
             THEN Raise("ValueError: Embedding count mismatch")
             ELSE Ok(embeddings)

\* variant: returns the vectors of the response unchecked
get_embedding_unchecked(texts, response) ==
    IF texts = << >>
    THEN Ok(<< >>)
    ELSE Ok([k \in 1..Len(response.data) |-> Vector(response.data[k], k)])

\* get_embedding after the provider has answered (utils.py:121-148)
get_embedding(texts, response) ==
    IF texts = << >>
    THEN Ok(<< >>)
    ELSE IF response.failed
    THEN Raise("APIError")
    ELSE LET embeddings == [k \in 1..Len(response.data) |-> Vector(response.data[k], k)]
         IN  IF Len(embeddings) # Len(texts)
             THEN Raise("ValueError: Embedding count mismatch")
             ELSE IF \E k \in 1..Len(embeddings) : embeddings[k].dim # embeddings[1].dim
             THEN Raise("ValueError: Embedding dimension mismatch")
             ELSE Ok(embeddings)

(***************************************************************************)
(* process_document (pipeline.py:227-322).                                 *)
(*                                                                         *)
(* db is the record of the three stores; env says which store statements   *)
(* of this run fail; trace lists the store and provider operations the     *)
(* call has issued so far, in order, each with its outcome.                *)
(***************************************************************************)
\* an entry of trace: the operation and how it ended ("ok" or the exception;
\* for the lookup of the stored hash the answer: "same", "different",
\* "absent", or "failed")
Op(op, outcome) == [op |-> op, outcome |-> outcome]

\* how a call that can raise ended: "ok" or the exception
Ended(r) == IF r.raised THEN r.exc ELSE "ok"

\* _log_ingestion_event catches the exception of its INSERT
LogEnded(fault) == IF fault THEN "OperationalError" ELSE "ok"

NoResult == [success |-> FALSE, chunks_processed |-> -1, message |-> "", error |-> << >>]

Outcome(db, result, trace) ==
    [documents |-> db.documents, points |-> db.points, ingestion_log |-> db.ingestion_log,
     result |-> result, trace |-> trace]

\* lines 244-253: the document is unchanged
Skip(db, doc_id, env, trace) ==
    Outcome([db EXCEPT !.ingestion_log =
                 _log_ingestion_event(@, doc_id, "skipped", env.log)],
            [success |-> TRUE, chunks_processed |-> 0,
             message |-> "Document unchanged, skipped processing", error |-> << >>],
            Append(trace, Op("log", LogEnded(env.log))))

\* variant: an except clause that deletes the Points of the document
ExceptHandler_rollback(db, doc_id, exc, env, trace) ==
    Outcome([db EXCEPT !.points = {p \in @ : p.payload.doc_id # doc_id},
                       !.ingestion_log =
                 _log_ingestion_event(@, doc_id, "error", env.log)],
            [success |-> FALSE, chunks_processed |-> 0, message |-> "",
             error |-> << "Failed to process document", doc_id, exc >>],
            Append(trace, Op("log", LogEnded(env.log))))

\* lines 306-322: the except clause
ExceptHandler(db, doc_id, exc, env, trace) ==
    Outcome([db EXCEPT !.ingestion_log =
                 _log_ingestion_event(@, doc_id, "error", env.log)],
            [success |-> FALSE, chunks_processed |-> 0, message |-> "",
             error |-> << "Failed to process document", doc_id, exc >>],
            Append(trace, Op("log", LogEnded(env.log))))

\* variant: writes the Document Record before it upserts the Points
Persist_record_first(db, doc_id, content_hash, chunks, emb, env, trace) ==
    IF emb.raised
    THEN ExceptHandler(db, doc_id, emb.exc, env, trace)
    ELSE
    LET m   == _update_document_metadata(db.documents, doc_id, content_hash,
                                         Len(chunks), env.metadata)
        tr1 == Append(trace, Op("metadata", Ended(m)))
    IN  IF m.raised
        THEN ExceptHandler(db, doc_id, m.exc, env, tr1)
        ELSE
        LET db1   == [db EXCEPT !.documents = m.value]
            batch == BuildPoints(doc_id, chunks, emb.value)
            u     == qdrant_upsert(db1.points, batch, env.upsert)
            tr2   == Append(tr1, Op("upsert", Ended(u)))
        IN  IF u.raised
            THEN ExceptHandler(db1, doc_id, u.exc, env, tr2)
            ELSE Outcome([db1 EXCEPT !.points = u.value,
                                     !.ingestion_log =
                              _log_ingestion_event(@, doc_id, "processed", env.log)],
                         [success |-> TRUE, chunks_processed |-> Len(chunks),
                          message |-> "Successfully processed", error |-> << >>],
                         Append(tr2, Op("log", LogEnded(env.log))))

\* lines 263-304: from the return of get_embedding to the success result
Persist(db, doc_id, content_hash, chunks, emb, env, trace) ==
    IF emb.raised
    THEN ExceptHandler(db, doc_id, emb.exc, env, trace)
    ELSE
    LET batch == BuildPoints(doc_id, chunks, emb.value)
        u     == qdrant_upsert(db.points, batch, env.upsert)
        tr1   == Append(trace, Op("upsert", Ended(u)))
    IN  IF u.raised
        THEN ExceptHandler(db, doc_id, u.exc, env, tr1)
        ELSE
        LET db1 == [db EXCEPT !.points = u.value]
            m   == _update_document_metadata(db1.documents, doc_id, content_hash,
                                             Len(chunks), env.metadata)
            tr2 == Append(tr1, Op("metadata", Ended(m)))
        IN  IF m.raised
            THEN ExceptHandler(db1, doc_id, m.exc, env, tr2)
            ELSE Outcome([db1 EXCEPT !.documents = m.value,
                                     !.ingestion_log =
                              _log_ingestion_event(@, doc_id, "processed", env.log)],
                         [success |-> TRUE, chunks_processed |-> Len(chunks),
                          message |-> "Successfully processed", error |-> << >>],
                         Append(tr2, Op("log", LogEnded(env.log))))

(***************************************************************************)
(* STARTUP.  IngestionPipeline.__init__ reads the settings and schedules   *)
(* the task _initialize (pipeline.py:51-75); nothing awaits the task.      *)
(***************************************************************************)
\* EMBEDDING_DIM: unset (or empty), not an integer, or an integer
Overrides ==
    {[kind |-> "unset", value |-> 0], [kind |-> "invalid", value |-> 0]} \cup
    {[kind |-> "int", value |-> d] : d \in Dims}

Settings == [EMBEDDING_MODEL : Models, EMBEDDING_DIM : Overrides]

DefaultSettings ==
    [EMBEDDING_MODEL |-> "text-embedding-3-small",
     EMBEDDING_DIM |-> [kind |-> "unset", value |-> 0]]

\* self.embedding_dim (pipeline.py:57-70)
embedding_dim(s) ==
    IF s.EMBEDDING_DIM.kind # "unset"
    THEN IF s.EMBEDDING_DIM.kind = "int" THEN s.EMBEDDING_DIM.value ELSE 1536
    ELSE IF s.EMBEDDING_MODEL = "text-embedding-3-large" THEN 3072 ELSE 1536

\* the collection black_synapse_documents of the vector store
NoCollection == [exists |-> FALSE, size |-> 0]

Collection(size) == [exists |-> TRUE, size |-> size]

\* _ensure_qdrant_collection (pipeline.py:93-95, 123)
max_attempts == 10

delay_initial == 1

delay_cap == 10

\* variant: doubles without the cap
Backoff_uncapped(delay) == delay * 2

\* delay = min(delay * 2, 10)
Backoff(delay) == Min(delay * 2, delay_cap)

\* the task _initialize: where it stands, the attempts it has made, the
\* delay of its next sleep, the sleeps it has taken, what it raised and
\* whether it has created the tables of the metadata store
BootScheduled ==
    [pc |-> "scheduled", attempt |-> 0, delay |-> delay_initial, sleeps |-> << >>, exc |-> "",
     tables |-> FALSE]

BootReady == [BootScheduled EXCEPT !.pc = "ready", !.attempt = 1, !.tables = TRUE]

\* the try body of one attempt (lines 98-114): get_collections, and
\* create_collection if the collection is absent
EnsureCollection(coll, size, unreachable, create_fault) ==
    IF unreachable
    THEN Raise("ResponseHandlingException")
    ELSE IF coll.exists
    THEN Ok(coll)
    ELSE IF create_fault
    THEN Raise("UnexpectedResponse")
    ELSE Ok(Collection(size))

\* variant: sleeps before it looks at the number of the attempt
ExceptRetry_sleep_first(boot, exc) ==
    IF boot.attempt = max_attempts
    THEN [boot EXCEPT !.pc = "failed", !.exc = exc, !.sleeps = Append(@, boot.delay)]
    ELSE [boot EXCEPT !.pc = "sleeping", !.sleeps = Append(@, boot.delay),
                      !.delay = Backoff(@)]

\* variant: creates the tables of the metadata store before it retries
ExceptRetry_with_tables(boot, exc) ==
    IF boot.attempt = max_attempts
    THEN [boot EXCEPT !.pc = "failed", !.exc = exc, !.tables = TRUE]
    ELSE [boot EXCEPT !.pc = "sleeping", !.sleeps = Append(@, boot.delay),
                      !.delay = Backoff(@), !.tables = TRUE]

\* the except clause of an attempt (lines 116-123)
ExceptRetry(boot, exc) ==
    IF boot.attempt = max_attempts
    THEN [boot EXCEPT !.pc = "failed", !.exc = exc]
    ELSE [boot EXCEPT !.pc = "sleeping", !.sleeps = Append(@, boot.delay),
                      !.delay = Backoff(@)]

\* _ensure_postgres_tables, the last step of _initialize (lines 84-89)
EnsureTables(boot, tables_fault) ==
    IF tables_fault
    THEN [boot EXCEPT !.pc = "failed", !.exc = "OperationalError"]
    ELSE [boot EXCEPT !.pc = "ready", !.tables = TRUE]

(***************************************************************************)
(* CHUNKING.  One run of chunk_text, window by window.                     *)
(***************************************************************************)
ChunkerIdle ==
    [pc |-> "idle", text |-> << >>, max_tokens |-> 0, overlap_tokens |-> 0,
     start |-> 0, chunks |-> << >>, windows |-> 0]

(***************************************************************************)
(* EMBEDDING.  One call of get_embedding: its texts, the requests it has   *)
(* sent to the provider, the response and what it returned or raised.      *)
(***************************************************************************)
EmbedderIdle ==
    [pc |-> "idle", texts |-> << >>, requests |-> 0,
     response |-> [failed |-> FALSE, data |-> << >>], result |-> Ok(<< >>)]

(***************************************************************************)
(* State.                                                                  *)
(***************************************************************************)
VARIABLES documents, ingestion_log, points, calls

\* the environment settings the pipeline was constructed with, the state of
\* the task _initialize and the collection of the vector store (STARTUP
\* below), the state of one run of chunk_text (CHUNKING below) and of one
\* call of get_embedding (EMBEDDING below)
VARIABLES settings, bootstrap, collection, chunker, embedder

startup == << settings, bootstrap, collection >>

vars == << documents, ingestion_log, points, calls, settings, bootstrap, collection, chunker, embedder >>

Calls == 1..NumCalls

Envs == [lookup : BOOLEAN, upsert : BOOLEAN, metadata : BOOLEAN, log : BOOLEAN]

Db == [documents |-> documents, points |-> points, ingestion_log |-> ingestion_log]

NoResponse == [failed |-> FALSE, data |-> << >>]

\* what the provider did with a request of n texts
ProviderAnswer(response, n) ==
    IF response.failed THEN "failed"
    ELSE IF Len(response.data) # n THEN "malformed"
    ELSE IF \E j, k \in 1..n : response.data[j] # response.data[k] THEN "malformed"
    ELSE "ok"

\* a call: its position, its arguments, the number of requests it has sent
\* to the embedding provider and what the provider did with the request,
\* what the call returned or raised, its trace, and (history) the texts of
\* the calls for the same doc_id that returned success while it was
\* suspended
IdleCall ==
    [pc |-> "idle", endpoint |-> "", document |-> None, force_reindex |-> FALSE,
     requests |-> 0, provider |-> "none",
     result |-> NoResult, exc |-> "", trace |-> << >>, overlapped |-> {}]

Init ==
    /\ documents = {}
    /\ ingestion_log = << >>
    /\ points = {}
    /\ calls = [c \in Calls |-> IdleCall]
    /\ settings = DefaultSettings
    /\ bootstrap = BootReady
    /\ collection = Collection(embedding_dim(DefaultSettings))
    /\ chunker = ChunkerIdle
    /\ embedder = EmbedderIdle

\* process_document returns into its endpoint, which builds the response
\* and returns without suspending (main.py:117-132): no other coroutine
\* runs before the frame of a call that has returned is gone
Quiescent == \A b \in Calls : calls[b].pc \notin {"returned", "raised", "not_found"}

\* doc_ids are opaque to the pipeline: the first document ever submitted
\* is called "doc"
Known(doc_id) ==
    \/ \E r \in documents : r.doc_id = doc_id
    \/ \E p \in points : p.payload.doc_id = doc_id
    \/ \E k \in 1..Len(ingestion_log) : ingestion_log[k].doc_id = doc_id
    \/ \E b \in Calls : calls[b].document.doc_id = doc_id

\* the slots are taken in order
MayStart(c) ==
    /\ Quiescent
    /\ calls[c].pc = "idle"
    /\ \A b \in Calls : b < c => calls[b].pc # "idle"

\* env names a fault only for a statement that the run executes
LogEnvs == {env \in Envs : ~env.lookup /\ ~env.upsert /\ ~env.metadata}

PersistEnvs == {env \in Envs : ~env.lookup /\ (env.upsert => ~env.metadata)}

EnvsAfter(emb) == IF emb.raised THEN LogEnvs ELSE PersistEnvs

With(env, lookup) == [env EXCEPT !.lookup = lookup]

\* process_document returns: the stores are as the run left them
Commit(c, call, provider, out) ==
    /\ documents' = out.documents
    /\ points' = out.points
    /\ ingestion_log' = out.ingestion_log
    /\ UNCHANGED << startup, chunker, embedder >>
    /\ calls' = [b \in Calls |->
          IF b = c
          THEN [call EXCEPT !.pc = "returned", !.provider = provider,
                            !.result = out.result, !.trace = out.trace]
          ELSE IF /\ calls[b].pc = "embedding"
                  /\ calls[b].document.doc_id = call.document.doc_id
                  /\ out.result.success
                  /\ out.result.message = "Successfully processed"
          THEN [calls[b] EXCEPT !.overlapped = @ \cup {call.document.text}]
          ELSE calls[b]]

\* process_document(document, force_reindex) with a DocumentPayload, up to
\* its return or to the suspension inside get_embedding
ProcessDocument(c, doc_id, text, force_reindex, lookup_fault) ==
    /\ MayStart(c)
    /\ doc_id # "doc" => Known("doc")
    /\ force_reindex => ~lookup_fault
    /\ \E document \in {DocumentPayload(doc_id, text)}, db \in {Db} :
       \E content_hash \in {_compute_content_hash(document.text)} :
       \E unchanged \in {_is_document_unchanged(documents, doc_id, content_hash, lookup_fault)},
          tr0 \in {IF force_reindex THEN << >>
                   ELSE << Op("lookup", LookupAnswer(documents, doc_id, content_hash,
                                                     lookup_fault)) >>},
          call \in {[IdleCall EXCEPT !.endpoint = "process_document",
                                     !.document = document,
                                     !.force_reindex = force_reindex]},
          chunks \in {ChunksOf[document.text]} :
       \E chunk_texts \in {[k \in 1..Len(chunks) |-> chunks[k].text]} :
           IF ~force_reindex /\ unchanged
           THEN \E env \in LogEnvs :
                \E out \in {Skip(db, doc_id, With(env, lookup_fault), tr0)} :
                    Commit(c, call, "none", out)
           ELSE IF chunk_texts = << >>
           THEN \E emb \in {get_embedding(chunk_texts, NoResponse)} :
                \E env \in EnvsAfter(emb) :
                \E out \in {Persist(db, doc_id, content_hash, chunks, emb,
                                   With(env, lookup_fault), tr0)} :
                    Commit(c, call, "none", out)
           ELSE /\ calls' = [calls EXCEPT ![c] =
                                [call EXCEPT !.pc = "embedding", !.requests = 1,
                                             !.trace = Append(tr0, Op("embed", "sent"))]]
                /\ UNCHANGED << documents, ingestion_log, points, startup, chunker, embedder >>

\* the provider has answered: get_embedding returns or raises and
\* process_document runs to its return
EmbeddingDone(c, response) ==
    /\ Quiescent
    /\ calls[c].pc = "embedding"
    /\ \E call \in {calls[c]}, db \in {Db} :
       \E document \in {call.document} :
       \E content_hash \in {_compute_content_hash(document.text)},
          chunks \in {ChunksOf[document.text]} :
       \E chunk_texts \in {[k \in 1..Len(chunks) |-> chunks[k].text]} :
           /\ response \in ResponsesFor[NativeDim(settings.EMBEDDING_MODEL)][Len(chunk_texts)]
           /\ \E emb \in {get_embedding(chunk_texts, response)} :
              \E tr0 \in {[call.trace EXCEPT ![Len(call.trace)] =
                               Op("embed", Ended(emb))]} :
              \E env \in EnvsAfter(emb) :
              \E out \in {Persist(db, document.doc_id, content_hash, chunks, emb, env, tr0)} :
                  Commit(c, call, ProviderAnswer(response, Len(chunk_texts)), out)

\* reindex_document(doc_id) (main.py:138-181): the dict of the stored row
\* goes to process_document, whose first attribute access raises; the
\* except clause reads document.doc_id and raises again
ReindexDocument(c, doc_id, lookup_fault) ==
    /\ MayStart(c)
    /\ LET document == get_document_by_id(documents, doc_id, lookup_fault)
           call     == [IdleCall EXCEPT !.endpoint = "reindex", !.document = document,
                                        !.force_reindex = TRUE]
       IN  /\ calls' = [calls EXCEPT ![c] =
                IF document = None
                THEN [call EXCEPT !.pc = "not_found", !.exc = "HTTPException 404"]
                ELSE IF ~HasAttributes(document)
                THEN [call EXCEPT !.pc = "raised", !.exc = "AttributeError"]
                ELSE call]
           /\ UNCHANGED << documents, ingestion_log, points, startup, chunker, embedder >>

\* the endpoint has answered its request (main.py:117-136, 160-181): the
\* frame of the call is gone
RequestDone(c) ==
    /\ calls[c].pc \in {"returned", "raised", "not_found"}
    /\ calls' = [calls EXCEPT ![c] = [IdleCall EXCEPT !.pc = "finished"]]
    /\ UNCHANGED << documents, ingestion_log, points, startup, chunker, embedder >>

Next ==
    \E c \in Calls :
        \/ \E doc_id \in Docs, text \in Texts, force_reindex \in BOOLEAN, lookup_fault \in BOOLEAN :
               ProcessDocument(c, doc_id, text, force_reindex, lookup_fault)
        \/ \E response \in AllResponses : EmbeddingDone(c, response)
        \/ \E doc_id \in Docs, lookup_fault \in BOOLEAN : ReindexDocument(c, doc_id, lookup_fault)
        \/ RequestDone(c)

Spec == Init /\ [][Next]_vars

(***************************************************************************)
(* Vocabulary of the properties.                                           *)
(***************************************************************************)
Returned(c) == calls[c].pc = "returned"

Skipped(c) == calls[c].result.message = "Document unchanged, skipped processing"

Processed(c) == calls[c].result.message = "Successfully processed"

TextOf(c) == calls[c].document.text

DocOf(c) == calls[c].document.doc_id

\* the step is the one in which process_document of call c returns
Returns(c) == calls[c].pc \in {"idle", "embedding"} /\ calls'[c].pc = "returned"

\* the step is the one in which process_document of call c is entered
Enters(c) == calls[c].pc = "idle" /\ calls'[c].pc \in {"embedding", "returned"}

Issued(tr, op) == \E k \in 1..Len(tr) : tr[k].op = op

Failed(tr, op) == \E k \in 1..Len(tr) : tr[k].op = op /\ tr[k].outcome # "ok"

LookupFound(c, answer) ==
    calls[c].trace # << >> /\ calls[c].trace[1] = Op("lookup", answer)

StoredEqual(rows, document) ==
    \E r \in rows : /\ r.doc_id = document.doc_id
                    /\ r.content_hash = _compute_content_hash(document.text)

OnePointPerChunk ==
    \A p, q \in points :
        (p.payload.doc_id = q.payload.doc_id /\ p.payload.chunk_index = q.payload.chunk_index)
            => p = q

EventOf(result) ==
    IF ~result.success THEN "error"
    ELSE IF result.message = "Document unchanged, skipped processing" THEN "skipped"
    ELSE "processed"

Appended(old, new, doc_id, event_type) ==
    /\ Len(new) = Len(old) + 1
    /\ SubSeq(new, 1, Len(old)) = old
    /\ new[Len(new)].doc_id = doc_id
    /\ new[Len(new)].event_type = event_type

PointsOf(doc_id) == {p \in points : p.payload.doc_id = doc_id}

\* the exceptions of a provider or store that is itself failing
OwnFaults ==
    {"APIError", "ValueError: Embedding count mismatch",
     "ValueError: Embedding dimension mismatch", "UnexpectedResponse", "OperationalError"}

\* the record and every Point stored for doc_id come from text
DerivedFrom(doc_id, text) ==
    LET chunks == ChunksOf[text]
    IN  /\ \E r \in documents : /\ r.doc_id = doc_id
                                /\ r.content_hash = _compute_content_hash(text)
                                /\ r.chunk_count = Len(chunks)
        /\ \A p \in PointsOf(doc_id) :
               /\ p.payload.chunk_index < Len(chunks)
               /\ p.payload.text = chunks[p.payload.chunk_index + 1].text

(***************************************************************************)
(* C1.                                                                     *)
(***************************************************************************)
\* C1 as stated: whenever process_document is entered with force_reindex
\* false for a document whose stored record holds the fingerprint of the
\* submitted text, it returns in that step with success and zero chunks,
\* sends no embedding request, leaves Points and records alone and appends
\* exactly one `skipped` log entry.
C1_AsStated ==
    [][\A c \in Calls :
          (/\ Enters(c)
           /\ ~calls'[c].force_reindex
           /\ StoredEqual(documents, calls'[c].document))
          => /\ calls'[c].pc = "returned"
             /\ calls'[c].result.success
             /\ calls'[c].result.chunks_processed = 0
             /\ calls'[c].requests = 0
             /\ points' = points
             /\ documents' = documents
             /\ Appended(ingestion_log, ingestion_log', calls'[c].document.doc_id, "skipped")
      ]_vars

\* C1 (amended): if the lookup of the stored hash succeeds and finds the
\* fingerprint of the submitted text, and force_reindex is false, the call
\* returns success with zero chunks without suspending, sends no embedding
\* request and leaves Points and records alone; it attempts one `skipped`
\* log entry, which is appended unless the log insert fails, and then the
\* log is unchanged.
C1_SkipUnchanged ==
    [][\A c \in Calls :
          (/\ Enters(c)
           /\ ~calls'[c].force_reindex
           /\ calls'[c].trace[1] = Op("lookup", "same"))
          => /\ StoredEqual(documents, calls'[c].document)
             /\ calls'[c].pc = "returned"
             /\ calls'[c].result.success
             /\ calls'[c].result.chunks_processed = 0
             /\ calls'[c].requests = 0
             /\ points' = points
             /\ documents' = documents
             /\ Len(calls'[c].trace) = 2
             /\ calls'[c].trace[2].op = "log"
             /\ IF calls'[c].trace[2].outcome = "ok"
                THEN Appended(ingestion_log, ingestion_log',
                              calls'[c].document.doc_id, "skipped")
                ELSE ingestion_log' = ingestion_log
      ]_vars

\* an unchanged document has been skipped
C1_Witness ==
    \E c \in Calls :
        /\ Returned(c)
        /\ ~calls[c].force_reindex
        /\ LookupFound(c, "same")
        /\ StoredEqual(documents, calls[c].document)
        /\ Skipped(c)
        /\ calls[c].result.chunks_processed = 0

(***************************************************************************)
(* C2.                                                                     *)
(***************************************************************************)
Reingested(c) ==
    /\ Returned(c)
    /\ calls[c].endpoint = "process_document"
    /\ calls[c].force_reindex \/ LookupFound(c, "different")

C3_RecordMatches ==
    /\ \A c \in Calls :
           (Returned(c) /\ calls[c].result.success /\ ~Skipped(c))
           => \E r \in documents :
                  /\ r.doc_id = DocOf(c)
                  /\ r.content_hash = _compute_content_hash(TextOf(c))
                  /\ r.chunk_count = calls[c].result.chunks_processed
                  /\ ~r.is_deleted
    /\ \A r, q \in documents : r.doc_id = q.doc_id => r = q

\* a document has been ingested again with a changed text
C3_Witness ==
    \E c \in Calls :
        /\ Returned(c)
        /\ calls[c].result.success
        /\ LookupFound(c, "different")
        /\ \E r \in documents : /\ r.doc_id = DocOf(c)
                                /\ r.content_hash = _compute_content_hash(TextOf(c))

(***************************************************************************)
(* C4.                                                                     *)
(***************************************************************************)
\* C4 as stated: process_document never raises to its caller, whatever
\* document value it is given.
C4_NeverRaises == \A c \in Calls : calls[c].pc # "raised"

(***************************************************************************)
(* C5.                                                                     *)
(***************************************************************************)
\* every step keeps the entries the log already holds
LogKept ==
    /\ Len(ingestion_log') >= Len(ingestion_log)
    /\ SubSeq(ingestion_log', 1, Len(ingestion_log)) = ingestion_log

\* C5 as stated: the step in which process_document returns appends
\* exactly one log entry for the doc_id, with the event type of the
\* returned outcome, and no step changes or removes a log entry.
C5_AsStated ==
    [][/\ LogKept
       /\ \A c \in Calls :
              Returns(c)
              => Appended(ingestion_log, ingestion_log',
                          calls'[c].document.doc_id, EventOf(calls'[c].result))
      ]_vars

\* C5 (amended): a call that returns has attempted exactly one log insert,
\* as its last operation; if the insert succeeded, exactly one entry for
\* the doc_id with the event type of the returned outcome has been
\* appended, and if it failed the log is as it was.  No step changes or
\* removes a log entry, and only a returning call adds one.
C5_LoggedOnce ==
    [][/\ LogKept
       /\ (\A c \in Calls : ~Returns(c)) => ingestion_log' = ingestion_log
       /\ \A c \in Calls :
              Returns(c)
              => LET tr == calls'[c].trace
                 IN  /\ tr[Len(tr)].op = "log"
                     /\ \A k \in 1..(Len(tr) - 1) : tr[k].op # "log"
                     /\ IF tr[Len(tr)].outcome = "ok"
                        THEN Appended(ingestion_log, ingestion_log',
                                      calls'[c].document.doc_id, EventOf(calls'[c].result))
                        ELSE ingestion_log' = ingestion_log
      ]_vars

\* a failed ingestion has been logged after an earlier entry
C5_Witness ==
    \E c \in Calls :
        /\ Returned(c)
        /\ ~calls[c].result.success
        /\ calls[c].trace[Len(calls[c].trace)] = Op("log", "ok")
        /\ Len(ingestion_log) >= 2
        /\ ingestion_log[Len(ingestion_log)].doc_id = DocOf(c)
        /\ ingestion_log[Len(ingestion_log)].event_type = "error"

(***************************************************************************)
(* C6.                                                                     *)
(***************************************************************************)
\* C6: when a call returns after its Point upsert succeeded and its record
\* upsert failed, the Points of the upsert are in the vector store, no
\* other Point has changed, the records are as they were before the call
\* resumed, and the result is a failure.
C6_NoRollback ==
    [][\A c \in Calls :
          (/\ Returns(c)
           /\ Op("upsert", "ok") \in {calls'[c].trace[k] : k \in 1..Len(calls'[c].trace)}
           /\ Failed(calls'[c].trace, "metadata"))
          => LET doc_id == calls'[c].document.doc_id
                 chunks == ChunksOf[calls'[c].document.text]
             IN  /\ ~calls'[c].result.success
                 /\ calls'[c].result.error[2] = doc_id
                 /\ documents' = documents
                 /\ \A k \in 1..Len(chunks) :
                        \E p \in points' : /\ p.id = PointId(doc_id, k - 1)
                                           /\ p.payload.text = chunks[k].text
                 /\ \A p \in points :
                        p \in points' \/ \E k \in 1..Len(chunks) : p.id = PointId(doc_id, k - 1)
      ]_vars

\* the record upsert of a new document failed after its Points were written
C6_Witness ==
    \E c \in Calls :
        /\ Returned(c)
        /\ ~calls[c].result.success
        /\ Failed(calls[c].trace, "metadata")
        /\ PointsOf(DocOf(c)) # {}
        /\ \A r \in documents : r.doc_id # DocOf(c)

(***************************************************************************)
(* C7.                                                                     *)
(***************************************************************************)
\* C7 as stated: a call for a document whose text is empty or blank
\* returns a failure, and has issued no fingerprint lookup, no embedding
\* request, no Point upsert and no record upsert.
C7_FailFast ==
    \A c \in Calls :
        (/\ Returned(c)
         /\ calls[c].endpoint = "process_document"
         /\ PyStrip(TextOf(c)) = << >>)
        => /\ ~calls[c].result.success
           /\ \A k \in 1..Len(calls[c].trace) : calls[c].trace[k].op = "log"

(***************************************************************************)
(* C8.                                                                     *)
(***************************************************************************)
\* C8: when a call returns after the provider failed its embedding request
\* or answered it with a malformed list, the result is a failure, the call
\* has issued one embedding request and neither a Point upsert nor a record
\* upsert, and Points and records are as they were; no call ever issues
\* more than one embedding request.
C8_EmbeddingFailure ==
    [][\A c \in Calls :
          /\ calls'[c].requests <= 1
          /\ (Returns(c) /\ calls'[c].provider \in {"failed", "malformed"})
             => /\ ~calls'[c].result.success
                /\ calls'[c].requests = 1
                /\ ~Issued(calls'[c].trace, "upsert")
                /\ ~Issued(calls'[c].trace, "metadata")
                /\ points' = points
                /\ documents' = documents
      ]_vars

\* a call has returned after a malformed answer of the provider, with
\* Points and a record of an earlier ingestion in the stores
C8_Witness ==
    \E c \in Calls :
        /\ Returned(c)
        /\ calls[c].provider = "malformed"
        /\ ~calls[c].result.success
        /\ PointsOf(DocOf(c)) # {}
        /\ \E r \in documents : r.doc_id = DocOf(c)

(***************************************************************************)
(* C9.                                                                     *)
(***************************************************************************)
\* C9 as stated: when a call returns success after another call for the
\* same doc_id with a different text returned success while it was
\* suspended, and no further call for the doc_id is in flight, the record
\* and every Point stored for the doc_id derive from one of the two texts.
C9_Converges ==
    \A c \in Calls :
        (/\ Returned(c)
         /\ Processed(c)
         /\ \A b \in Calls : calls[b].pc = "embedding" => DocOf(b) # DocOf(c))
        => \A t \in calls[c].overlapped :
               t # TextOf(c) => DerivedFrom(DocOf(c), t) \/ DerivedFrom(DocOf(c), TextOf(c))

(***************************************************************************)
(* C10.                                                                    *)
(***************************************************************************)
\* C10 as stated: whether a call succeeds does not depend on the documents
\* ingested under other doc_ids: a call returns a failure only if its own
\* embedding request, Point upsert or record upsert met a failing provider
\* or store.
C10_Independent ==
    \A c \in Calls :
        (Returned(c) /\ ~calls[c].result.success)
        => \E k \in 1..Len(calls[c].trace) :
               /\ calls[c].trace[k].op \in {"embed", "upsert", "metadata"}
               /\ calls[c].trace[k].outcome \in OwnFaults

(***************************************************************************)
(* STARTUP: the task _initialize beside the ingestion calls.               *)
(*                                                                         *)
(* get_collections and create_collection are blocking calls; the task      *)
(* gives up the loop only in asyncio.sleep (pipeline.py:122).  An attempt  *)
(* that succeeds runs on into _ensure_postgres_tables without suspending.  *)
(* The endpoints do not look at the task: a request is served whenever     *)
(* the loop is free.                                                       *)
(***************************************************************************)
\* one pass through the retry loop of _ensure_qdrant_collection, when the
\* task is first run or its sleep has ended, up to the next sleep or to the
\* end of _initialize
BootAttempt(unreachable, create_fault, tables_fault) ==
    /\ Quiescent
    /\ bootstrap.pc \in {"scheduled", "sleeping"}
    /\ unreachable => ~create_fault
    /\ create_fault => ~collection.exists
    /\ tables_fault => ~unreachable /\ ~create_fault
    /\ \E boot \in {[bootstrap EXCEPT !.attempt = @ + 1]},
          r \in {EnsureCollection(collection, embedding_dim(settings),
                                  unreachable, create_fault)} :
           IF r.raised
           THEN /\ bootstrap' = ExceptRetry(boot, r.exc)
                /\ collection' = collection
           ELSE /\ bootstrap' = EnsureTables(boot, tables_fault)
                /\ collection' = r.value
    /\ UNCHANGED << documents, ingestion_log, points, calls, settings, chunker, embedder >>

\* the vector store may hold the collection of an earlier run
InitBoot ==
    /\ documents = {}
    /\ ingestion_log = << >>
    /\ points = {}
    /\ calls = [c \in Calls |-> IdleCall]
    /\ settings \in Settings
    /\ bootstrap = BootScheduled
    /\ collection \in {NoCollection} \cup {Collection(d) : d \in Dims}
    /\ chunker = ChunkerIdle
    /\ embedder = EmbedderIdle

NextBoot ==
    \/ \E unreachable \in BOOLEAN, create_fault \in BOOLEAN, tables_fault \in BOOLEAN :
           BootAttempt(unreachable, create_fault, tables_fault)
    \/ \E c \in Calls :
           \* the task was created when main.py was imported: it has run
           \* up to its first suspension before the first request is read
           \/ bootstrap.pc # "scheduled" /\ ProcessDocument(c, "doc", TextShort, FALSE, FALSE)
           \/ \E response \in AllResponses : EmbeddingDone(c, response)
           \/ RequestDone(c)

SpecBoot == InitBoot /\ [][NextBoot]_vars

(***************************************************************************)
(* C11.                                                                    *)
(***************************************************************************)
\* C11 as stated: a call issues a Point upsert only when the task
\* _initialize has completed successfully, neither while it is still
\* retrying nor after it has failed.
C11_UpsertAfterBootstrap ==
    [][\A c \in Calls :
          (Returns(c) /\ Issued(calls'[c].trace, "upsert")) => bootstrap.pc = "ready"
      ]_vars

(***************************************************************************)
(* C12.                                                                    *)
(***************************************************************************)
BootActs == bootstrap' # bootstrap

\* C12: the task makes at most max_attempts attempts, one per step, and
\* has ended when it has made that many.  The first attempt that succeeds
\* ends the retry loop, having created the collection, with the configured
\* size, only if it was absent, and having slept no more.  An attempt that
\* fails leaves the collection alone; if it is the last, the task raises
\* without another sleep, and if not, the task sleeps once.
C12_BootstrapTerminates ==
    [][/\ bootstrap'.attempt <= max_attempts
       /\ bootstrap'.attempt = max_attempts => bootstrap'.pc \in {"ready", "failed"}
       /\ ~BootActs => collection' = collection
       /\ BootActs =>
            /\ bootstrap.pc \in {"scheduled", "sleeping"}
            /\ bootstrap'.attempt = bootstrap.attempt + 1
            /\ \/ /\ bootstrap'.pc = "ready" \/ bootstrap'.exc = "OperationalError"
                  /\ bootstrap'.sleeps = bootstrap.sleeps
                  /\ collection'.exists
                  /\ collection.exists => collection' = collection
                  /\ ~collection.exists => collection' = Collection(embedding_dim(settings))
               \/ /\ bootstrap'.pc = "sleeping"
                  /\ bootstrap'.attempt < max_attempts
                  /\ Len(bootstrap'.sleeps) = Len(bootstrap.sleeps) + 1
                  /\ collection' = collection
               \/ /\ bootstrap'.pc = "failed"
                  /\ bootstrap'.exc # "OperationalError"
                  /\ bootstrap'.attempt = max_attempts
                  /\ bootstrap'.sleeps = bootstrap.sleeps
                  /\ Len(bootstrap'.sleeps) = max_attempts - 1
                  /\ collection' = collection
      ]_vars

\* the store was unreachable for every attempt: the task has failed and no
\* collection exists
C12_Witness ==
    /\ bootstrap.pc = "failed"
    /\ bootstrap.exc = "ResponseHandlingException"
    /\ bootstrap.attempt = max_attempts
    /\ ~collection.exists

(***************************************************************************)
(* C13.                                                                    *)
(***************************************************************************)
\* C13: the k-th sleep of the task lasts min(2^(k-1), 10), and there are
\* at most 9 sleeps.
C13_Backoff ==
    /\ Len(bootstrap.sleeps) <= 9
    /\ \A k \in 1..Len(bootstrap.sleeps) : bootstrap.sleeps[k] = Min(2^(k - 1), 10)

\* the task has slept nine times
C13_Witness == bootstrap.sleeps = << 1, 2, 4, 8, 10, 10, 10, 10, 10 >>

(***************************************************************************)
(* C16.                                                                    *)
(***************************************************************************)
\* C16 as stated: every Point the pipeline has upserted has a vector of
\* the length embedding_dim, the size the pipeline creates the collection
\* with, whatever the settings; and all stored vectors have one length.
C16_OneDimension ==
    /\ \A p \in points : p.vector.dim = embedding_dim(settings)
    /\ \A p, q \in points : p.vector.dim = q.vector.dim

(***************************************************************************)
(* C14.                                                                    *)
(***************************************************************************)
\* C14 as stated: a re-index call that has found the Document Record of
\* its doc_id runs process_document with force_reindex on it: the call is
\* waiting for its embeddings or has returned a result value.
C14_ReindexRuns ==
    \A c \in Calls :
        (calls[c].endpoint = "reindex" /\ calls[c].document # None)
        => /\ calls[c].force_reindex
           /\ calls[c].pc \in {"embedding", "returned"}

(***************************************************************************)
(* C15.                                                                    *)
(***************************************************************************)
EntersReindex(c) == calls[c].pc = "idle" /\ calls'[c].endpoint = "reindex"

\* C15: a re-index call gets past the lookup only with a Document Record
\* of its doc_id; otherwise it ends not found (HTTP 404), without an
\* embedding request or any store operation, and Points, records and log
\* are as they were.
C15_NotFound ==
    [][\A c \in Calls :
          EntersReindex(c)
          => /\ calls'[c].pc # "not_found"
                => \E r \in documents : r.doc_id = calls'[c].document.doc_id
             /\ (\A r \in documents : r.doc_id \notin Docs) => calls'[c].pc = "not_found"
             /\ calls'[c].pc = "not_found"
                => /\ calls'[c].exc = "HTTPException 404"
                   /\ calls'[c].requests = 0
                   /\ calls'[c].trace = << >>
                   /\ points' = points
                   /\ documents' = documents
                   /\ ingestion_log' = ingestion_log
      ]_vars

\* a re-index call has ended not found beside the stored documents
C15_Witness ==
    \E c \in Calls :
        /\ calls[c].pc = "not_found"
        /\ calls[c].endpoint = "reindex"
        /\ \E r \in documents : r.doc_id = "doc"
        /\ \A r \in documents : r.doc_id # "doc_1"
        /\ points # {}

(***************************************************************************)
(* CHUNKING: chunk_text(text, tokenizer, max_tokens, overlap_tokens) run   *)
(* window by window (utils.py:30-95), for every text over Alphabet of at   *)
(* most MaxTextLen characters.                                             *)
(***************************************************************************)
Alphabet == {"a", "b", " "}

ChunkTexts == UNION {SeqsOfLen(Alphabet, n) : n \in 0..MaxTextLen}

\* a run that has not ended after this many windows is cut off
MaxWindows == MaxTextLen + 2

\* chunk_text is called
InitChunk ==
    /\ documents = {}
    /\ ingestion_log = << >>
    /\ points = {}
    /\ calls = [c \in Calls |-> IdleCall]
    /\ settings = DefaultSettings
    /\ bootstrap = BootReady
    /\ collection = Collection(embedding_dim(DefaultSettings))
    /\ embedder = EmbedderIdle
    /\ \E text \in ChunkTexts, max_tokens \in 1..MaxMaxTokens, overlap_tokens \in 0..MaxOverlap :
           chunker = [ChunkerIdle EXCEPT !.pc = "called", !.text = text,
                                         !.max_tokens = max_tokens,
                                         !.overlap_tokens = overlap_tokens]

\* lines 44-57: the returns before the loop, or the entry into the loop
ChunkEnter ==
    /\ chunker.pc = "called"
    /\ chunker' =
          IF PyStrip(chunker.text) = << >> \/ Len(encode(chunker.text)) <= chunker.max_tokens
          THEN [chunker EXCEPT !.pc = "done",
                               !.chunks = chunk_text(chunker.text, chunker.max_tokens,
                                                     chunker.overlap_tokens)]
          ELSE [chunker EXCEPT !.pc = "loop", !.start = 0, !.chunks = << >>]
    /\ UNCHANGED << documents, ingestion_log, points, calls, startup, embedder >>

\* lines 59-93: the test of the while loop and one pass through its body
ChunkIterate ==
    /\ chunker.pc = "loop"
    /\ chunker.windows < MaxWindows
    /\ LET tokens == encode(chunker.text)
           w      == ChunkWindow(tokens, chunker.start, chunker.max_tokens,
                                 chunker.overlap_tokens)
       IN  chunker' =
              IF ~(chunker.start < Len(tokens))
              THEN [chunker EXCEPT !.pc = "done"]
              ELSE [chunker EXCEPT
                       !.chunks = IF w.emit THEN Append(@, w.chunk) ELSE @,
                       !.windows = @ + 1,
                       !.start = IF w.stop THEN @ ELSE w.next,
                       !.pc = IF w.stop THEN "done" ELSE "loop"]
    /\ UNCHANGED << documents, ingestion_log, points, calls, startup, embedder >>

NextChunk == ChunkEnter \/ ChunkIterate

SpecChunk == InitChunk /\ [][NextChunk]_vars

\* the run has returned, for a text of more than max_tokens tokens with
\* overlap_tokens < max_tokens
LongDone ==
    /\ chunker.pc = "done"
    /\ Len(encode(chunker.text)) > chunker.max_tokens
    /\ chunker.overlap_tokens < chunker.max_tokens

\* C17: for a text of more than max_tokens tokens and overlap_tokens <
\* max_tokens, every passage returned has a non-empty text that is stripped
\* of whitespace and a token_count that is the re-tokenized length of the
\* passage and is at most max_tokens.
C17_PassageBounds ==
    LongDone =>
        \A k \in 1..Len(chunker.chunks) :
            /\ chunker.chunks[k].text # << >>
            /\ PyStrip(chunker.chunks[k].text) = chunker.chunks[k].text
            /\ chunker.chunks[k].token_count = Len(encode(chunker.chunks[k].text))
            /\ chunker.chunks[k].token_count <= chunker.max_tokens

\* the whitespace-delimited words of a text: the maximal runs of characters
\* that are not whitespace
WordsOf(text) ==
    {SubSeq(text, i, j) : << i, j >> \in
        {ij \in (1..Len(text)) \X (1..Len(text)) :
            /\ ij[1] <= ij[2]
            /\ \A k \in ij[1]..ij[2] : ~IsSpace(text[k])
            /\ ij[1] = 1 \/ IsSpace(text[ij[1] - 1])
            /\ ij[2] = Len(text) \/ IsSpace(text[ij[2] + 1])}}

\* the word occurs in the text
OccursIn(word, text) ==
    \E o \in 0..(Len(text) - Len(word)) : SubSeq(text, o + 1, o + Len(word)) = word

\* C18: for a text of more than max_tokens tokens and 0 <= overlap_tokens <
\* max_tokens, every whitespace-delimited word of the text occurs in at
\* least one returned passage.
C18_NoWordLost ==
    LongDone =>
        \A word \in WordsOf(chunker.text) :
            \E k \in 1..Len(chunker.chunks) : OccursIn(word, chunker.chunks[k].text)

\* C19: chunk_text terminates for every text, max_tokens >= 1 and
\* overlap_tokens >= 0, overlap_tokens >= max_tokens included: a pass through
\* the loop that does not end the run moves start forward.
C19_Terminates ==
    [][(chunker.pc = "loop" /\ chunker'.pc = "loop") => chunker'.start > chunker.start]_vars

\* C20: for every text of at most max_tokens tokens, chunk_text returns
\* exactly one passage, whose text is the text itself and whose token_count
\* is the token length of the text.
C20_AsStated ==
    (chunker.pc = "done" /\ Len(encode(chunker.text)) <= chunker.max_tokens) =>
        chunker.chunks = << [text |-> chunker.text,
                             token_count |-> Len(encode(chunker.text))] >>

\* C20, amended: for every text of at most max_tokens tokens that is not
\* blank, chunk_text returns exactly one passage, whose text is the text
\* itself, unstripped, and whose token_count is the token length of the text;
\* for a blank text it returns no passage.
C20_SinglePassage ==
    (chunker.pc = "done" /\ Len(encode(chunker.text)) <= chunker.max_tokens) =>
        chunker.chunks =
            IF PyStrip(chunker.text) = << >>
            THEN << >>
            ELSE << [text |-> chunker.text, token_count |-> Len(encode(chunker.text))] >>

\* a short text with whitespace around its words has been returned whole
C20_Witness ==
    /\ chunker.pc = "done"
    /\ Len(encode(chunker.text)) <= chunker.max_tokens
    /\ PyStrip(chunker.text) # << >>
    /\ PyStrip(chunker.text) # chunker.text
    /\ Len(chunker.chunks) = 1

(***************************************************************************)
(* C21.                                                                    *)
(***************************************************************************)
\* the texts that are empty or hold whitespace only
BlankTexts == {t \in ChunkTexts : PyStrip(t) = << >>} \cup {TextBlank, << "\n", "\t" >>}

\* chunk_text of a blank text is the empty list, whatever max_tokens and
\* overlap_tokens
BlankGivesNoPassage ==
    \A t \in BlankTexts, max_tokens \in 1..MaxMaxTokens, overlap_tokens \in 0..MaxOverlap :
        chunk_text(t, max_tokens, overlap_tokens) = << >>

BlankIngested(c) ==
    /\ Returned(c)
    /\ calls[c].endpoint = "process_document"
    /\ PyStrip(TextOf(c)) = << >>

\* C21 as stated: chunk_text of a blank text returns no passage, for every
\* max_tokens and overlap_tokens, and an ingestion of a text without
\* passages returns success with chunks_processed = 0.
C21_AsStated ==
    /\ BlankGivesNoPassage
    /\ \A c \in Calls :
           BlankIngested(c)
           => calls[c].result.success /\ calls[c].result.chunks_processed = 0

\* C21 (amended): chunk_text of a blank text returns no passage, for every
\* max_tokens and overlap_tokens.  An ingestion of a text without passages
\* sends no embedding request; unless it is skipped as unchanged it issues
\* the Point upsert, of no Points, and then the record upsert, and it
\* returns success with chunks_processed = 0 if both succeed and a failure
\* if one of them fails.
C21_BlankText ==
    /\ BlankGivesNoPassage
    /\ \A c \in Calls :
           BlankIngested(c)
           => /\ calls[c].requests = 0
              /\ ~Issued(calls[c].trace, "embed")
              /\ calls[c].result.chunks_processed = 0
              /\ ~Skipped(c) => Issued(calls[c].trace, "upsert")
              /\ calls[c].result.success
                   <=> ~Failed(calls[c].trace, "upsert") /\ ~Failed(calls[c].trace, "metadata")
              /\ (~Skipped(c) /\ ~Failed(calls[c].trace, "upsert"))
                   => Issued(calls[c].trace, "metadata")

\* a blank text has been ingested: no request, an empty upsert, a record of
\* zero chunks
C21_Witness ==
    \E c \in Calls :
        /\ BlankIngested(c)
        /\ Processed(c)
        /\ calls[c].result.chunks_processed = 0
        /\ calls[c].requests = 0
        /\ Issued(calls[c].trace, "upsert")
        /\ \E r \in documents : r.doc_id = DocOf(c) /\ r.chunk_count = 0
        /\ PointsOf(DocOf(c)) = {}

(***************************************************************************)
(* EMBEDDING: get_embedding(texts, openai_client, model) on its own        *)
(* (utils.py:97-148), for every list of at most MaxBatch texts and every   *)
(* answer of the provider.                                                 *)
(***************************************************************************)
EmbedTexts == UNION {SeqsOfLen({<< "x" >>, << "y" >>}, n) : n \in 0..MaxBatch}

\* the answers to a request of n texts: the request fails, or response.data
\* holds n - 1, n or n + 1 vectors, each of either length
AnyResponses(n) ==
    {[failed |-> TRUE, data |-> << >>]} \cup
    {[failed |-> FALSE, data |-> q] :
        q \in UNION {SeqsOfLen(Dims, m) : m \in (IF n > 0 THEN n - 1 ELSE 0)..(n + 1)}}

\* get_embedding is called
InitEmbed ==
    /\ documents = {}
    /\ ingestion_log = << >>
    /\ points = {}
    /\ calls = [c \in Calls |-> IdleCall]
    /\ settings = DefaultSettings
    /\ bootstrap = BootReady
    /\ collection = Collection(embedding_dim(DefaultSettings))
    /\ chunker = ChunkerIdle
    /\ \E texts \in EmbedTexts : embedder = [EmbedderIdle EXCEPT !.pc = "called", !.texts = texts]

\* lines 110-119: the return for no texts, or the request to the provider
\* and the suspension in asyncio.to_thread
EmbedCall ==
    /\ embedder.pc = "called"
    /\ embedder' =
          IF NeedsProvider(embedder.texts)
          THEN [embedder EXCEPT !.pc = "awaiting", !.requests = @ + 1]
          ELSE [embedder EXCEPT !.pc = "returned",
                                !.result = get_embedding(embedder.texts, embedder.response)]
    /\ UNCHANGED << documents, ingestion_log, points, calls, startup, chunker >>

\* lines 115-148: the provider has answered
EmbedAnswer(response) ==
    /\ embedder.pc = "awaiting"
    /\ \E result \in {get_embedding(embedder.texts, response)} :
           embedder' = [embedder EXCEPT !.pc = IF result.raised THEN "raised" ELSE "returned",
                                        !.response = response,
                                        !.result = result]
    /\ UNCHANGED << documents, ingestion_log, points, calls, startup, chunker >>

NextEmbed ==
    \/ EmbedCall
    \/ \E response \in AnyResponses(Len(embedder.texts)) : EmbedAnswer(response)

SpecEmbed == InitEmbed /\ [][NextEmbed]_vars

(***************************************************************************)
(* C22.                                                                    *)
(***************************************************************************)
\* C22: get_embedding either raises or returns one vector per text, the
\* k-th vector being the k-th entry of the response, all of one length; it
\* raises when the provider fails, when the response holds fewer or more
\* entries than there were texts, and when two of its vectors differ in
\* length.
C22_WellFormedOrRaises ==
    /\ embedder.pc = "returned"
       => /\ ~embedder.result.raised
          /\ Len(embedder.result.value) = Len(embedder.texts)
          /\ \A k \in 1..Len(embedder.texts) :
                 /\ embedder.result.value[k] = Vector(embedder.response.data[k], k)
                 /\ embedder.result.value[k].dim = embedder.result.value[1].dim
    /\ embedder.pc = "raised" => embedder.result.raised
    /\ (/\ embedder.pc \in {"returned", "raised"}
        /\ embedder.requests > 0
        /\ ProviderAnswer(embedder.response, Len(embedder.texts)) # "ok")
       => embedder.pc = "raised"

\* a response of the right number of vectors, two of them of different
\* lengths, has been refused
C22_Witness ==
    /\ embedder.pc = "raised"
    /\ Len(embedder.texts) >= 2
    /\ ~embedder.response.failed
    /\ Len(embedder.response.data) = Len(embedder.texts)
    /\ embedder.result.exc = "ValueError: Embedding dimension mismatch"

(***************************************************************************)
(* C23.                                                                    *)
(***************************************************************************)
\* C23: get_embedding of no texts returns the empty list and sends no
\* request to the provider.
C23_EmptyBatch ==
    (embedder.texts = << >> /\ embedder.pc # "called")
    => /\ embedder.pc = "returned"
       /\ embedder.requests = 0
       /\ embedder.result = Ok(<< >>)

\* get_embedding of no texts has returned
C23_Witness ==
    /\ embedder.texts = << >>
    /\ embedder.pc = "returned"
    /\ embedder.requests = 0

(***************************************************************************)
(* SYNC: sync_source(source) (pipeline.py:380-425) beside the ingestion    *)
(* calls.  It awaits nothing that suspends: one step.                      *)
(***************************************************************************)
Sources == {"notion", "doc"}

SyncResult(errors) == [documents_processed |-> 0, documents_deleted |-> 0, errors |-> errors]

\* variant: marks every Document Record deleted before it reports
sync_source_mark_deleted(db, source, started_fault, completed_fault) ==
    LET log1 == _log_ingestion_event(db.ingestion_log, source, "sync_started", started_fault)
        log2 == _log_ingestion_event(log1, source, "sync_completed", completed_fault)
    IN  Outcome([db EXCEPT !.ingestion_log = log2,
                           !.documents = {[r EXCEPT !.is_deleted = TRUE] : r \in @}],
                SyncResult(<< >>),
                << Op("sync_started", LogEnded(started_fault)),
                   Op("sync_completed", LogEnded(completed_fault)) >>)

\* the two log writes and the placeholder result; _log_ingestion_event
\* catches its own exceptions, so the except clause (lines 419-425) is
\* never entered
sync_source(db, source, started_fault, completed_fault) ==
    LET log1 == _log_ingestion_event(db.ingestion_log, source, "sync_started", started_fault)
        log2 == _log_ingestion_event(log1, source, "sync_completed", completed_fault)
    IN  Outcome([db EXCEPT !.ingestion_log = log2],
                SyncResult(<< >>),
                << Op("sync_started", LogEnded(started_fault)),
                   Op("sync_completed", LogEnded(completed_fault)) >>)

\* the argument of a sync call: the source, which is written to the column
\* doc_id of its log entries
SourceArg(source) == [shape |-> "source", doc_id |-> source, text |-> NoText]

SyncSource(c, source, started_fault, completed_fault) ==
    /\ MayStart(c)
    /\ \E out \in {sync_source(Db, source, started_fault, completed_fault)} :
           /\ documents' = out.documents
           /\ points' = out.points
           /\ ingestion_log' = out.ingestion_log
           /\ calls' = [calls EXCEPT ![c] =
                  [IdleCall EXCEPT !.pc = "returned", !.endpoint = "sync",
                                   !.document = SourceArg(source),
                                   !.result = out.result, !.trace = out.trace]]
    /\ UNCHANGED << startup, chunker, embedder >>

NextSync ==
    \E c \in Calls :
        \/ \E source \in Sources, started_fault \in BOOLEAN, completed_fault \in BOOLEAN :
               SyncSource(c, source, started_fault, completed_fault)
        \/ \E text \in {TextShort, TextLong} : ProcessDocument(c, "doc", text, FALSE, FALSE)
        \/ \E response \in AllResponses : EmbeddingDone(c, response)
        \/ RequestDone(c)

SpecSync == Init /\ [][NextSync]_vars

(***************************************************************************)
(* C24.                                                                    *)
(***************************************************************************)
Syncs(c) == calls[c].pc = "idle" /\ calls'[c].endpoint = "sync"

CountOf(tr, op) == Cardinality({k \in 1..Len(tr) : tr[k].op = op})

\* C25 as stated: a call that returns without having been skipped has
\* issued exactly one Point upsert.
C25_AsStated ==
    [][\A c \in Calls :
          (Returns(c) /\ calls'[c].result.message # "Document unchanged, skipped processing")
          => CountOf(calls'[c].trace, "upsert") = 1
      ]_vars

\* C25 (amended): a call that returns without having been skipped has
\* issued exactly one Point upsert if get_embedding returned (or there were
\* no passages) and none if get_embedding raised.  If the upsert succeeded,
\* the store holds for each of the n passages the Point doc_id_i with
\* chunk_index i, the text of passage i and the i-th vector of the
\* response, and every other Point is as it was.  If the upsert failed,
\* the call returns a failure without a second upsert and without a record
\* upsert, and Points and records are as they were.
C25_OneBatch ==
    [][\A c \in Calls :
          (Returns(c) /\ calls'[c].result.message # "Document unchanged, skipped processing")
          => LET tr     == calls'[c].trace
                 doc_id == calls'[c].document.doc_id
                 chunks == ChunksOf[calls'[c].document.text]
                 n      == Len(chunks)
                 ids    == {PointId(doc_id, i) : i \in 0..(n - 1)}
             IN  /\ CountOf(tr, "upsert") = IF Failed(tr, "embed") THEN 0 ELSE 1
                 /\ Op("upsert", "ok") \in {tr[k] : k \in 1..Len(tr)}
                    => /\ Cardinality(ids) = n
                       /\ \A i \in 0..(n - 1) :
                              \E p \in points' :
                                  /\ p.id = PointId(doc_id, i)
                                  /\ p.payload.doc_id = doc_id
                                  /\ p.payload.chunk_index = i
                                  /\ p.payload.text = chunks[i + 1].text
                                  /\ p.vector.input = i + 1
                                  /\ \A q \in points' : q.id = p.id => q = p
                       /\ \A p \in points' : p.id \notin ids => p \in points
                       /\ \A p \in points : p.id \notin ids => p \in points'
                 /\ Failed(tr, "upsert")
                    => /\ ~calls'[c].result.success
                       /\ ~Issued(tr, "metadata")
                       /\ points' = points
                       /\ documents' = documents
      ]_vars

\* a document of several passages has been ingested over its earlier Points
C25_Witness ==
    \E c \in Calls :
        /\ Returned(c)
        /\ Processed(c)
        /\ calls[c].result.chunks_processed >= 2
        /\ LookupFound(c, "different")
        /\ Cardinality(PointsOf(DocOf(c))) = calls[c].result.chunks_processed

(***************************************************************************)
(* C26.                                                                    *)
(***************************************************************************)
\* the Points stored for doc_id are those of chunk_index 0..chunk_count-1
\* of its Document Record (none if it has no record)
ExactPoints(doc_id, rows, stored) ==
    LET indices == {p.payload.chunk_index : p \in {q \in stored : q.payload.doc_id = doc_id}}
    IN  IF \E r \in rows : r.doc_id = doc_id
        THEN \A r \in rows : r.doc_id = doc_id => indices = 0..(r.chunk_count - 1)
        ELSE indices = {}

\* C26 as stated: a call that returns success for a doc_id whose stored
\* Points were exactly those of its Document Record leaves them so: the
\* Points stored for the doc_id are exactly those of chunk_index
\* 0..chunk_count-1 of the new record.
C26_NoStalePoints ==
    [][\A c \in Calls :
          (/\ Returns(c)
           /\ calls'[c].result.message = "Successfully processed"
           /\ ExactPoints(calls'[c].document.doc_id, documents, points))
          => ExactPoints(calls'[c].document.doc_id, documents', points')
      ]_vars

(***************************************************************************)
(* C27.                                                                    *)
(***************************************************************************)
\* C27: a Document Record is written only by a call that returns, for its
\* own doc_id and with the fingerprint of its own text, directly after its
\* Point upsert returned successfully, whose Points are then in the vector
\* store; a call issues its record upsert only directly after a successful
\* Point upsert.
C27_RecordAfterUpsert ==
    [][/\ \A c \in Calls :
              Returns(c)
              => LET tr == calls'[c].trace
                 IN  \A k \in 1..Len(tr) :
                         tr[k].op = "metadata" => k > 1 /\ tr[k - 1] = Op("upsert", "ok")
       /\ documents' # documents
          => \E c \in Calls :
                 LET tr     == calls'[c].trace
                     doc_id == calls'[c].document.doc_id
                     chunks == ChunksOf[calls'[c].document.text]
                 IN  /\ Returns(c)
                     /\ \E k \in 2..Len(tr) : /\ tr[k] = Op("metadata", "ok")
                                              /\ tr[k - 1] = Op("upsert", "ok")
                     /\ \A r \in documents' : r.doc_id # doc_id => r \in documents
                     /\ \A r \in documents : r.doc_id # doc_id => r \in documents'
                     /\ \A r \in documents' :
                            r.doc_id = doc_id
                            => r.content_hash = _compute_content_hash(calls'[c].document.text)
                     /\ \A i \in 1..Len(chunks) :
                            \E p \in points' : /\ p.id = PointId(doc_id, i - 1)
                                               /\ p.payload.text = chunks[i].text
      ]_vars

\* a call has written its record over that of a call for the same doc_id
\* that returned while it was suspended
C27_Witness ==
    \E c \in Calls :
        /\ Returned(c)
        /\ Processed(c)
        /\ calls[c].overlapped # {}
        /\ TextOf(c) \notin calls[c].overlapped
        /\ \E r \in documents : /\ r.doc_id = DocOf(c)
                                /\ r.content_hash = _compute_content_hash(TextOf(c))

(***************************************************************************)
(* C28.                                                                    *)
(***************************************************************************)
\* C28: a call whose lookup of the stored fingerprint fails is not skipped
\* and does not fail at the lookup: it sends its embedding request (unless
\* the text has no passages), and when it returns after get_embedding
\* returned it has issued its Point upsert.
C28_LookupFailure ==
    [][\A c \in Calls :
          /\ (Enters(c) /\ calls'[c].trace[1] = Op("lookup", "failed"))
             => IF ChunksOf[calls'[c].document.text] # << >>
                THEN /\ calls'[c].pc = "embedding"
                     /\ calls'[c].requests = 1
                     /\ calls'[c].trace[2] = Op("embed", "sent")
                ELSE calls'[c].trace[2].op = "upsert"
          /\ (Returns(c) /\ calls'[c].trace[1] = Op("lookup", "failed"))
             => /\ calls'[c].result.message # "Document unchanged, skipped processing"
                /\ calls'[c].trace[2].op \in {"embed", "upsert"}
                /\ calls'[c].trace[2] = Op("embed", "ok") => calls'[c].trace[3].op = "upsert"
      ]_vars

\* a document whose record holds the fingerprint of the submitted text has
\* been processed again because the lookup failed
C28_Witness ==
    \E c \in Calls :
        /\ Returned(c)
        /\ LookupFound(c, "failed")
        /\ Processed(c)
        /\ calls[c].requests = 1
        /\ Cardinality({k \in 1..Len(ingestion_log) :
                            ingestion_log[k] = [doc_id |-> DocOf(c), event_type |-> "processed"]}) = 2
        /\ Cardinality({ingestion_log[k].doc_id : k \in 1..Len(ingestion_log)}) = 1
        /\ \A b \in Calls : b # c => calls[b].pc \in {"finished", "idle"}

(***************************************************************************)
(* C29.                                                                    *)
(***************************************************************************)
\* doc_ids with underscores and digits
IdDocs == Docs \cup {"doc1", "doc_1_0", "doc_", "1", "1_1", "_", "_0", ""}

\* the point ids of two different (doc_id, chunk_index) pairs differ
PointIdsDistinct ==
    \A d1, d2 \in IdDocs : \A i1, i2 \in 0..MaxIndex :
        PointId(d1, i1) = PointId(d2, i2) => d1 = d2 /\ i1 = i2

\* C29: the point ids of distinct (doc_id, chunk_index) pairs are distinct,
\* also for doc_ids with underscores and digits; a call that returns has
\* left the Points and the Document Records of every other doc_id as they
\* were, and no two stored Points of different doc_id or chunk_index share
\* an id.
C29_OwnDocumentOnly ==
    [][/\ PointIdsDistinct
       /\ \A c \in Calls :
              Returns(c)
              => LET doc_id == calls'[c].document.doc_id
                 IN  /\ {p \in points' : p.payload.doc_id # doc_id}
                          = {p \in points : p.payload.doc_id # doc_id}
                     /\ {r \in documents' : r.doc_id # doc_id}
                          = {r \in documents : r.doc_id # doc_id}
                     /\ \A p, q \in points' :
                            p.id = q.id => /\ p.payload.doc_id = q.payload.doc_id
                                           /\ p.payload.chunk_index = q.payload.chunk_index
      ]_vars

\* "doc" has a Point of chunk_index 1 beside the Points of "doc_1"
C29_Witness ==
    \E c \in Calls :
        /\ Returned(c)
        /\ Processed(c)
        /\ DocOf(c) = "doc_1"
        /\ \E p \in PointsOf("doc") : p.payload.chunk_index = 1 /\ p.id = "doc_1"
        /\ \E p \in PointsOf("doc_1") : p.id = "doc_1_0"
        /\ \E r \in documents : r.doc_id = "doc"
        /\ \E r \in documents : r.doc_id = "doc_1"

(***************************************************************************)
(* C30.                                                                    *)
(***************************************************************************)
\* C30: the task has created the tables only when its collection attempt
\* has succeeded, so that the collection exists: not before its first
\* attempt, not while it sleeps between attempts and not when it has
\* failed.  When max_attempts attempts have failed, the task has ended
\* with the exception of the last attempt and without the tables.
C30_TablesAfterCollection ==
    /\ bootstrap.tables => bootstrap.pc = "ready" /\ collection.exists
    /\ bootstrap.pc \in {"scheduled", "sleeping", "failed"} => ~bootstrap.tables
    /\ bootstrap.pc = "sleeping" => bootstrap.attempt < max_attempts
    /\ (bootstrap.attempt = max_attempts /\ bootstrap.pc # "ready")
       => /\ bootstrap.pc = "failed"
          /\ bootstrap.exc # ""
          /\ ~bootstrap.tables
    /\ bootstrap.pc = "failed" <=> bootstrap.exc # ""

\* ten attempts have failed while requests were served: no tables
C30_Witness ==
    /\ bootstrap.pc = "failed"
    /\ bootstrap.attempt = max_attempts
    /\ Len(bootstrap.sleeps) = max_attempts - 1
    /\ bootstrap.exc \in {"ResponseHandlingException", "UnexpectedResponse"}
    /\ ~bootstrap.tables
    /\ ingestion_log # << >>

====
